---- MODULE Spec2Model ----
(***************************************************************************)
(* Voice Analysis Toolkit: the ProcessingController session state machine  *)
(* with the Validator, TranscriptionService and AnalysisService it drives. *)
(*                                                                         *)
(* Text is a sequence of one-character strings, except that the two fixed  *)
(* phrases of the Q&A contract are single tokens of a response.            *)
(* An optional value (Python None or a str) is a record [isNone, val].     *)
(* A call's result is a record: a return with a value or a raise with the  *)
(* exception's class and message.                                          *)
(***************************************************************************)
EXTENDS Integers, Sequences, FiniteSets, TLC

\* ------------------------------------------------------------------ bounds

\* Cap on the number of Q&A turns a session accumulates.
MaxHistory == 2

\* Sessions transcribing at the same time, and the local transcriptions each
\* of them makes.
NumSessions == 2

MaxCalls == 2

\* ------------------------------------------------------- values and strings

None == [isNone |-> TRUE, val |-> <<>>]

Str(s) == [isNone |-> FALSE, val |-> s]

\* Python truthiness of an optional str: None and "" are falsy.
Truthy(x) == ~x.isNone /\ x.val # <<>>

Whitespace == {" ", "\t", "\n"}

RECURSIVE lstrip(_)
lstrip(s) == IF s # <<>> /\ Head(s) \in Whitespace THEN lstrip(Tail(s)) ELSE s

RECURSIVE rstrip(_)
rstrip(s) ==
    IF s # <<>> /\ s[Len(s)] \in Whitespace THEN rstrip(SubSeq(s, 1, Len(s) - 1)) ELSE s

\* str.strip()
strip(s) == rstrip(lstrip(s))

\* Python's  sub in s
Contains(sub, s) ==
    \E i \in 1..(Len(s) - Len(sub) + 1) : SubSeq(s, i, i + Len(sub) - 1) = sub

UpperCase ==
    << "A", "B", "C", "D", "E", "F", "G", "H", "I", "J", "K", "L", "M",
       "N", "O", "P", "Q", "R", "S", "T", "U", "V", "W", "X", "Y", "Z" >>

LowerCase ==
    << "a", "b", "c", "d", "e", "f", "g", "h", "i", "j", "k", "l", "m",
       "n", "o", "p", "q", "r", "s", "t", "u", "v", "w", "x", "y", "z" >>

ToLower ==
    [c \in {UpperCase[i] : i \in 1..Len(UpperCase)} |->
        LowerCase[CHOOSE i \in 1..Len(UpperCase) : UpperCase[i] = c]]

LowerChar(c) == IF c \in DOMAIN ToLower THEN ToLower[c] ELSE c

\* str.lower()
lower(s) == [i \in 1..Len(s) |-> LowerChar(s[i])]

\* --------------------------------------------------------------- exceptions

\* The class each exception class derives from.
Base(t) ==
    CASE t = "AppError" -> "Exception"
      [] t = "ValidationError" -> "AppError"
      [] t = "InvalidFileType" -> "ValidationError"
      [] t = "FileSizeExceeded" -> "ValidationError"
      [] t = "FileLengthExceeded" -> "ValidationError"
      [] t = "TranscriptionError" -> "AppError"
      [] t = "AnalysisError" -> "AppError"
      [] t = "IrrelevantQuestionError" -> "AnalysisError"
      [] t = "ConnectionError" -> "RequestException"
      [] t = "Timeout" -> "RequestException"
      [] t = "APIStatusError" -> "OpenAIError"
      [] t = "APIConnectionError" -> "OpenAIError"
      [] OTHER -> "Exception"

RECURSIVE IsA(_, _)
\* isinstance(e, c): what an  except c  clause catches.
IsA(t, c) == t = c \/ (t # "Exception" /\ IsA(Base(t), c))

Return(v) == [kind |-> "return", value |-> v, type |-> "", msg |-> ""]

Raise(t, m) == [kind |-> "raise", value |-> None, type |-> t, msg |-> m]

Raised(r, c) == r.kind = "raise" /\ IsA(r.type, c)

\* ------------------------------------------------------------ configuration

MAX_FILE_SIZE_MB == 25

MAX_FILE_LENGTH_MINS == 10

ALLOWED_FILE_EXTENSIONS ==
    { <<".", "m", "p", "3">>, <<".", "w", "a", "v">>, <<".", "m", "4", "a">>,
      <<".", "f", "l", "a", "c">>, <<".", "o", "g", "g">> }

BytesPerMB == 1048576

MsPerMinute == 60000

\* ------------------------------------------------------------------ events

\* One call made while an operation runs: the callee; for a method of a
\* service, also how the call ended and, for the analysis service's public
\* methods, the arguments it was handed.
Call(fn, text, question, history, out) ==
    [fn |-> fn, text |-> text, question |-> question, history |-> history, out |-> out]

Ev(fn) == Call(fn, None, <<>>, <<>>, Return(None))

EvOut(fn, out) == Call(fn, None, <<>>, <<>>, out)

\* ---------------------------------------------------------------- Validator

\* A size check made before the extension check.
validate_audio_file_size_first(f) ==
    IF ~f.exists
    THEN [out |-> Raise("ValidationError", "File not found at path: {file_path}"),
          events |-> <<Ev("os.path.exists")>>]
    ELSE IF f.size > MAX_FILE_SIZE_MB * BytesPerMB
    THEN [out |-> Raise("FileSizeExceeded",
                        "File size of {size:.2f}MB exceeds the {limit}MB limit."),
          events |-> <<Ev("os.path.exists"), Ev("os.path.getsize")>>]
    ELSE IF lower(f.ext) \notin ALLOWED_FILE_EXTENSIONS
    THEN [out |-> Raise("InvalidFileType", "Invalid file type. Allowed types are: {allowed}"),
          events |-> <<Ev("os.path.exists"), Ev("os.path.getsize")>>]
    ELSE LET evs == <<Ev("os.path.exists"), Ev("os.path.getsize"),
                      Ev("AudioSegment.from_file")>>
         IN  IF f.decode = "CouldntDecodeError"
             THEN [out |-> Raise("ValidationError",
                                 "Failed to read audio file. It may be corrupted or in an unsupported format despite the file extension."),
                   events |-> evs]
             ELSE IF f.decode # "ok"
             THEN [out |-> Raise(f.decode, ""), events |-> evs]
             ELSE IF f.duration > MAX_FILE_LENGTH_MINS * MsPerMinute
             THEN [out |-> Raise("FileLengthExceeded",
                                 "Audio duration of {duration:.2f} minutes exceeds the {limit} minute limit."),
                   events |-> evs]
             ELSE [out |-> Return(None), events |-> evs]

\* An extension check made before the existence check.
validate_audio_file_type_first(f) ==
    IF lower(f.ext) \notin ALLOWED_FILE_EXTENSIONS
    THEN [out |-> Raise("InvalidFileType", "Invalid file type. Allowed types are: {allowed}"),
          events |-> <<>>]
    ELSE IF ~f.exists
    THEN [out |-> Raise("ValidationError", "File not found at path: {file_path}"),
          events |-> <<Ev("os.path.exists")>>]
    ELSE IF f.size > MAX_FILE_SIZE_MB * BytesPerMB
    THEN [out |-> Raise("FileSizeExceeded",
                        "File size of {size:.2f}MB exceeds the {limit}MB limit."),
          events |-> <<Ev("os.path.exists"), Ev("os.path.getsize")>>]
    ELSE LET evs == <<Ev("os.path.exists"), Ev("os.path.getsize"),
                      Ev("AudioSegment.from_file")>>
         IN  IF f.decode = "CouldntDecodeError"
             THEN [out |-> Raise("ValidationError",
                                 "Failed to read audio file. It may be corrupted or in an unsupported format despite the file extension."),
                   events |-> evs]
             ELSE IF f.decode # "ok"
             THEN [out |-> Raise(f.decode, ""), events |-> evs]
             ELSE IF f.duration > MAX_FILE_LENGTH_MINS * MsPerMinute
             THEN [out |-> Raise("FileLengthExceeded",
                                 "Audio duration of {duration:.2f} minutes exceeds the {limit} minute limit."),
                   events |-> evs]
             ELSE [out |-> Return(None), events |-> evs]

\* A size check that also rejects a file exactly at the limit.
validate_audio_file_size_inclusive(f) ==
    IF ~f.exists
    THEN [out |-> Raise("ValidationError", "File not found at path: {file_path}"),
          events |-> <<Ev("os.path.exists")>>]
    ELSE IF lower(f.ext) \notin ALLOWED_FILE_EXTENSIONS
    THEN [out |-> Raise("InvalidFileType", "Invalid file type. Allowed types are: {allowed}"),
          events |-> <<Ev("os.path.exists")>>]
    ELSE IF f.size >= MAX_FILE_SIZE_MB * BytesPerMB
    THEN [out |-> Raise("FileSizeExceeded",
                        "File size of {size:.2f}MB exceeds the {limit}MB limit."),
          events |-> <<Ev("os.path.exists"), Ev("os.path.getsize")>>]
    ELSE LET evs == <<Ev("os.path.exists"), Ev("os.path.getsize"),
                      Ev("AudioSegment.from_file")>>
         IN  IF f.decode = "CouldntDecodeError"
             THEN [out |-> Raise("ValidationError",
                                 "Failed to read audio file. It may be corrupted or in an unsupported format despite the file extension."),
                   events |-> evs]
             ELSE IF f.decode # "ok"
             THEN [out |-> Raise(f.decode, ""), events |-> evs]
             ELSE IF f.duration > MAX_FILE_LENGTH_MINS * MsPerMinute
             THEN [out |-> Raise("FileLengthExceeded",
                                 "Audio duration of {duration:.2f} minutes exceeds the {limit} minute limit."),
                   events |-> evs]
             ELSE [out |-> Return(None), events |-> evs]

\* A duration check that also rejects audio exactly at the limit.
validate_audio_file_length_inclusive(f) ==
    IF ~f.exists
    THEN [out |-> Raise("ValidationError", "File not found at path: {file_path}"),
          events |-> <<Ev("os.path.exists")>>]
    ELSE IF lower(f.ext) \notin ALLOWED_FILE_EXTENSIONS
    THEN [out |-> Raise("InvalidFileType", "Invalid file type. Allowed types are: {allowed}"),
          events |-> <<Ev("os.path.exists")>>]
    ELSE IF f.size > MAX_FILE_SIZE_MB * BytesPerMB
    THEN [out |-> Raise("FileSizeExceeded",
                        "File size of {size:.2f}MB exceeds the {limit}MB limit."),
          events |-> <<Ev("os.path.exists"), Ev("os.path.getsize")>>]
    ELSE LET evs == <<Ev("os.path.exists"), Ev("os.path.getsize"),
                      Ev("AudioSegment.from_file")>>
         IN  IF f.decode = "CouldntDecodeError"
             THEN [out |-> Raise("ValidationError",
                                 "Failed to read audio file. It may be corrupted or in an unsupported format despite the file extension."),
                   events |-> evs]
             ELSE IF f.decode # "ok"
             THEN [out |-> Raise(f.decode, ""), events |-> evs]
             ELSE IF f.duration >= MAX_FILE_LENGTH_MINS * MsPerMinute
             THEN [out |-> Raise("FileLengthExceeded",
                                 "Audio duration of {duration:.2f} minutes exceeds the {limit} minute limit."),
                   events |-> evs]
             ELSE [out |-> Return(None), events |-> evs]

\* An uploaded file as the validator sees it: whether the path exists, the
\* extension os.path.splitext gives, the size in bytes, what decoding it does
\* ("ok" or the exception class AudioSegment.from_file raises) and the decoded
\* length in milliseconds.
validate_audio_file(f) ==
    IF ~f.exists
    THEN [out |-> Raise("ValidationError", "File not found at path: {file_path}"),
          events |-> <<Ev("os.path.exists")>>]
    ELSE IF lower(f.ext) \notin ALLOWED_FILE_EXTENSIONS
    THEN [out |-> Raise("InvalidFileType", "Invalid file type. Allowed types are: {allowed}"),
          events |-> <<Ev("os.path.exists")>>]
    ELSE IF f.size > MAX_FILE_SIZE_MB * BytesPerMB
    THEN [out |-> Raise("FileSizeExceeded",
                        "File size of {size:.2f}MB exceeds the {limit}MB limit."),
          events |-> <<Ev("os.path.exists"), Ev("os.path.getsize")>>]
    ELSE LET evs == <<Ev("os.path.exists"), Ev("os.path.getsize"),
                      Ev("AudioSegment.from_file")>>
         IN  IF f.decode = "CouldntDecodeError"
             THEN [out |-> Raise("ValidationError",
                                 "Failed to read audio file. It may be corrupted or in an unsupported format despite the file extension."),
                   events |-> evs]
             ELSE IF f.decode # "ok"
             THEN [out |-> Raise(f.decode, ""), events |-> evs]
             ELSE IF f.duration > MAX_FILE_LENGTH_MINS * MsPerMinute
             THEN [out |-> Raise("FileLengthExceeded",
                                 "Audio duration of {duration:.2f} minutes exceeds the {limit} minute limit."),
                   events |-> evs]
             ELSE [out |-> Return(None), events |-> evs]

\* ----------------------------------------------------- TranscriptionService

\* MODEL_PROVIDER, as text.
ProviderLocal == <<"l", "o", "c", "a", "l">>

ProviderOpenAI == <<"o", "p", "e", "n", "a", "i">>

\* The class-level cache is None or the constructed pipeline.
NoPipeline == "None"

ThePipeline == "Pipeline"

\* env.init: what constructing the pipeline does ("ok" or "raise").
\* Gives the pipeline handed back (or the error) and the cache afterwards.
get_local_pipeline(pipeline, env) ==
    IF pipeline = NoPipeline
    THEN IF env.init = "ok"
         THEN [out |-> Return(None), pipeline |-> ThePipeline,
               events |-> <<Ev("pipeline")>>]
         ELSE [out |-> Raise("TranscriptionError",
                             "Could not initialize the local transcription model. Please check model name and dependencies."),
               pipeline |-> pipeline,
               events |-> <<Ev("pipeline")>>]
    ELSE [out |-> Return(None), pipeline |-> pipeline, events |-> <<>>]

\* env.backend: "text" (the model's raw output is env.text) or the class of
\* the exception the inference raises.
transcribe_local(pipeline, env) ==
    LET p == get_local_pipeline(pipeline, env)
        failed == Raise("TranscriptionError",
                        "An unexpected error occurred during local transcription.")
    IN  IF p.out.kind = "raise"
        THEN [out |-> failed, pipeline |-> p.pipeline, events |-> p.events]
        ELSE [out |-> IF env.backend = "text" THEN Return(Str(strip(env.text))) ELSE failed,
              pipeline |-> p.pipeline,
              events |-> p.events \o <<Ev("pipeline.__call__")>>]

\* Reading e.response of an OpenAIError: only a status error carries one.
HasResponse(t) == t = "APIStatusError"

transcribe_openai(key, pipeline, env) ==
    IF ~Truthy(key)
    THEN [out |-> Raise("TranscriptionError", "OpenAI API key is not configured."),
          pipeline |-> pipeline, events |-> <<>>]
    ELSE [out |->
            IF env.backend = "text" THEN Return(Str(strip(env.text)))
            ELSE IF IsA(env.backend, "OpenAIError")
            THEN IF HasResponse(env.backend)
                 THEN Raise("TranscriptionError", "An OpenAI API error occurred: {status_code}")
                 ELSE Raise("AttributeError", "object has no attribute 'response'")
            ELSE Raise("TranscriptionError",
                       "An unexpected error occurred while using the OpenAI API."),
          pipeline |-> pipeline,
          events |-> <<Ev("OpenAI"), Ev("audio.transcriptions.create")>>]

transcribe(provider, key, pipeline, env) ==
    IF lower(provider) = ProviderLocal THEN transcribe_local(pipeline, env)
    ELSE IF lower(provider) = ProviderOpenAI THEN transcribe_openai(key, pipeline, env)
    ELSE [out |-> Raise("ValueError", "Invalid model provider '{MODEL_PROVIDER}' specified in config."),
          pipeline |-> pipeline, events |-> <<>>]

\* ---------------------------------------------------------- AnalysisService

\* The phrase the Q&A prompt tells the model to answer with when the
\* transcript does not hold the answer.
PromptSentinel == <<"That information is not available in the provided document.">>

\* The phrase answer_question looks for in the response.
ErrorSignal == <<"ERROR: The answer to this question cannot be found">>

\* env.backend: "text" (the backend's raw response is env.text) or the class
\* of the exception the request raises.
analyze_local(env) ==
    [out |->
        IF env.backend = "text" THEN Return(Str(strip(env.text)))
        ELSE IF IsA(env.backend, "ConnectionError")
        THEN Raise("AnalysisError",
                   "Could not connect to the local Ollama server. Please ensure it is running.")
        ELSE IF IsA(env.backend, "RequestException")
        THEN Raise("AnalysisError",
                   "An error occurred while communicating with the Ollama server.")
        ELSE Raise(env.backend, ""),
     events |-> <<Ev("requests.post")>>]

\* A remote strategy that does not look at the key before using the client.
analyze_openai_unchecked(key, env) ==
    [out |-> IF env.backend = "text" THEN Return(Str(strip(env.text)))
             ELSE Raise("AnalysisError",
                        "An unexpected error occurred while using the OpenAI API."),
     events |-> <<Ev("OpenAI"), Ev("chat.completions.create")>>]

analyze_openai(key, env) ==
    IF ~Truthy(key)
    THEN [out |-> Raise("AnalysisError", "OpenAI API key is not configured."),
          events |-> <<>>]
    ELSE [out |->
            IF env.backend = "text" THEN Return(Str(strip(env.text)))
            ELSE IF IsA(env.backend, "OpenAIError")
            THEN IF HasResponse(env.backend)
                 THEN Raise("AnalysisError", "An OpenAI API error occurred: {status_code}")
                 ELSE Raise("AttributeError", "object has no attribute 'response'")
            ELSE Raise("AnalysisError",
                       "An unexpected error occurred while using the OpenAI API."),
          events |-> <<Ev("OpenAI"), Ev("chat.completions.create")>>]

\* A dispatcher that compares the flag as written.
analyze_case_sensitive(provider, key, env) ==
    IF provider = ProviderLocal THEN analyze_local(env)
    ELSE IF provider = ProviderOpenAI THEN analyze_openai(key, env)
    ELSE [out |-> Raise("ValueError", "Invalid model provider '{MODEL_PROVIDER}' specified in config."),
          events |-> <<>>]

analyze(provider, key, env) ==
    IF lower(provider) = ProviderLocal THEN analyze_local(env)
    ELSE IF lower(provider) = ProviderOpenAI THEN analyze_openai(key, env)
    ELSE [out |-> Raise("ValueError", "Invalid model provider '{MODEL_PROVIDER}' specified in config."),
          events |-> <<>>]

summarize(text, provider, key, env) ==
    LET r == analyze(provider, key, env)
    IN  [out |-> r.out,
         events |-> <<Call("summarize", text, <<>>, <<>>, r.out), EvOut("_analyze", r.out)>>
                    \o r.events]

analysis_get_sentiment(text, provider, key, env) ==
    LET r == analyze(provider, key, env)
    IN  [out |-> r.out,
         events |-> <<Call("get_sentiment", text, <<>>, <<>>, r.out), EvOut("_analyze", r.out)>>
                    \o r.events]

analysis_answer_question(text, q, h, provider, key, env) ==
    LET r == analyze(provider, key, env)
        out == IF r.out.kind = "return" /\ Contains(ErrorSignal, r.out.value.val)
               THEN Raise("IrrelevantQuestionError",
                          "The question could not be answered based on the provided audio content.")
               ELSE r.out
    IN  [out |-> out,
         events |-> <<Call("answer_question", text, q, h, out), EvOut("_analyze", r.out)>>
                    \o r.events]

\* ----------------------------------------------------- ProcessingController

VARIABLES
    transcript,       \* self.transcript: None or the stored text
    chat_history,     \* self.chat_history: the sequence of <<question, answer>> turns
    local_pipeline,   \* TranscriptionService._local_pipeline (class-level, process-wide)
    MODEL_PROVIDER,   \* config.MODEL_PROVIDER
    OPENAI_API_KEY,   \* config.OPENAI_API_KEY
    op,               \* the controller method called last
    file,             \* its file argument (process_audio_file)
    question,         \* its question argument (answer_question)
    result,           \* how it ended: what it returned or raised
    events,           \* the calls it made, in order
    ready,            \* the last process_audio_file returned without error
    ever_ready,       \* some process_audio_file has returned without error
    before,           \* transcript, chat_history and ready as the last call found them
    pc,               \* where each session stands inside _get_local_pipeline
    calls,            \* how many _get_local_pipeline calls each session has made
    constructed,      \* how many times pipeline(...) has built the model
    audio_file_path,  \* the path Gradio handed to the UI's upload handler last
    on_disk,          \* that file still exists now that the handler has returned
    ui_out            \* which updates the handler returned

vars == << transcript, chat_history, local_pipeline, MODEL_PROVIDER, OPENAI_API_KEY,
           op, file, question, result, events, ready, ever_ready, before,
           pc, calls, constructed, audio_file_path, on_disk, ui_out >>

Snapshot == [transcript |-> transcript, chat_history |-> chat_history, ready |-> ready]

NotReadyMsg == "Please process an audio file before requesting analysis."

EmptyQuestionMsg == "Question cannot be empty."

InternalErrorMsg == "An unexpected error occurred. Please check the logs."

\* A reset that forgets to clear the turns.
reset_state_keep_history(t, h) == [transcript |-> None, chat_history |-> h]

\* A reset that leaves the earlier transcript in place.
reset_state_keep_transcript(t, h) == [transcript |-> t, chat_history |-> <<>>]

\* "Reset state for a new file"
reset_state(t, h) == [transcript |-> None, chat_history |-> <<>>]

\* Except clauses that turn every error into the generic one.
except_clauses_wrap_all(out) ==
    IF out.kind = "raise" THEN Raise("AppError", InternalErrorMsg) ELSE out

\* Except clauses that let every error through as it is.
except_clauses_reraise(out) == out

\* The except clauses of process_audio_file: an AppError is re-raised as it
\* is, anything else becomes the generic AppError.
except_clauses(out) ==
    IF out.kind = "raise" /\ ~IsA(out.type, "AppError")
    THEN Raise("AppError", InternalErrorMsg)
    ELSE out

process_audio_file(t, h, f, provider, key, pipeline, env) ==
    LET reset == reset_state(t, h)
        v == validate_audio_file(f)
        tr == transcribe(provider, key, pipeline, env)
    IN  IF v.out.kind = "raise"
        THEN [transcript |-> reset.transcript, chat_history |-> reset.chat_history,
              pipeline |-> pipeline, out |-> except_clauses(v.out),
              events |-> <<EvOut("validate_audio_file", v.out)>> \o v.events]
        ELSE [transcript |-> IF tr.out.kind = "return" THEN tr.out.value
                             ELSE reset.transcript,
              chat_history |-> reset.chat_history,
              pipeline |-> tr.pipeline,
              out |-> IF tr.out.kind = "return" THEN Return(None)
                      ELSE except_clauses(tr.out),
              events |-> <<EvOut("validate_audio_file", v.out)>> \o v.events
                         \o <<EvOut("transcribe", tr.out)>> \o tr.events]

\* A guard that lets every call through.
ensure_transcript_exists_unguarded(t) == Return(None)

ensure_transcript_exists(t) ==
    IF ~Truthy(t) THEN Raise("AppError", NotReadyMsg) ELSE Return(None)

get_transcript(t) ==
    LET e == ensure_transcript_exists(t)
    IN  IF e.kind = "raise" THEN [out |-> e, events |-> <<>>]
        ELSE [out |-> Return(t), events |-> <<>>]

get_summary(t, provider, key, env) ==
    LET e == ensure_transcript_exists(t)
    IN  IF e.kind = "raise" THEN [out |-> e, events |-> <<>>]
        ELSE summarize(t, provider, key, env)

get_sentiment(t, provider, key, env) ==
    LET e == ensure_transcript_exists(t)
    IN  IF e.kind = "raise" THEN [out |-> e, events |-> <<>>]
        ELSE analysis_get_sentiment(t, provider, key, env)

\* A turn recorded whether or not the analysis service returned.
append_turn_always(h, q, out) == Append(h, <<q, out.value.val>>)

\* A turn put in front of the earlier ones.
append_turn_front(h, q, out) ==
    IF out.kind = "return" THEN <<(<<q, out.value.val>>)>> \o h ELSE h

\* self.chat_history.append([question, response]), reached only when the
\* analysis service returned.
append_turn(h, q, out) ==
    IF out.kind = "return" THEN Append(h, <<q, out.value.val>>) ELSE h

answer_question(t, h, q, provider, key, env) ==
    LET e == ensure_transcript_exists(t)
        r == analysis_answer_question(t, q, h, provider, key, env)
    IN  IF e.kind = "raise" THEN [out |-> e, chat_history |-> h, events |-> <<>>]
        ELSE IF q = <<>> \/ strip(q) = <<>>
        THEN [out |-> Raise("AppError", EmptyQuestionMsg), chat_history |-> h,
              events |-> <<>>]
        ELSE [out |-> r.out, chat_history |-> append_turn(h, q, r.out),
              events |-> r.events]

\* ------------------------------------------------------------------ inputs

Providers == { ProviderLocal, <<"O", "p", "e", "n", "A", "I">>,
               <<"r", "e", "m", "o", "t", "e">> }

ApiKeys == { None, Str(<<"s", "k">>) }

GoodFile ==
    [exists |-> TRUE, ext |-> <<".", "m", "p", "3">>, size |-> 512000,
     decode |-> "ok", duration |-> 120000]

NoFile ==
    [exists |-> FALSE, ext |-> <<>>, size |-> 0, decode |-> "ok", duration |-> 0]

\* One file for each way through the validator.
Files ==
    { GoodFile,
      [GoodFile EXCEPT !.ext = <<".", "W", "A", "V">>, !.size = 26214400,
                       !.duration = 600000],
      [GoodFile EXCEPT !.exists = FALSE],
      [GoodFile EXCEPT !.ext = <<".", "t", "x", "t">>, !.size = 31457280],
      [GoodFile EXCEPT !.size = 31457280],
      [GoodFile EXCEPT !.decode = "CouldntDecodeError"],
      [GoodFile EXCEPT !.decode = "FileNotFoundError"],
      [GoodFile EXCEPT !.duration = 600001] }

RawTexts == { <<>>, <<" ">>, <<" ", "h", "i", "\n">>, <<"a", " ", "b">> }

TranscriptionEnvs ==
    [init : {"ok", "raise"}, backend : {"text"}, text : RawTexts]
    \cup [init : {"ok", "raise"},
          backend : {"RuntimeError", "APIStatusError", "APIConnectionError"},
          text : {<<>>}]

RawResponses ==
    { <<" ", "o", "k", "\n">>, PromptSentinel, ErrorSignal,
      <<"n", "o", " ">> \o ErrorSignal \o <<".">> }

AnalysisEnvs ==
    [backend : {"text"}, text : RawResponses]
    \cup [backend : {"ConnectionError", "Timeout", "KeyError", "APIStatusError",
                     "APIConnectionError"},
          text : {<<>>}]

Questions == { <<>>, <<" ", "\t">>, <<"q">>, <<" ", "q", "?">> }

Sessions == 1 .. NumSessions

\* Every combination of what the validator looks at, with sizes and durations
\* under, at and over the limits.
ValidatorFiles ==
    [exists : BOOLEAN,
     ext : { <<".", "m", "p", "3">>, <<".", "W", "A", "V">>, <<".", "t", "x", "t">>, <<>> },
     size : { 512000, MAX_FILE_SIZE_MB * BytesPerMB, MAX_FILE_SIZE_MB * BytesPerMB + 1,
              31457280 },
     decode : { "ok", "CouldntDecodeError", "FileNotFoundError" },
     duration : { 120000, MAX_FILE_LENGTH_MINS * MsPerMinute,
                  MAX_FILE_LENGTH_MINS * MsPerMinute + 1 }]

\* ----------------------------------------------------------------- actions

\* One action per controller method. Each draws the call's argument and what
\* the collaborators do (env), binds r to the method's outcome and records the
\* call in op, file, question, result, events and before.

Init ==
    /\ transcript = None
    /\ chat_history = <<>>
    /\ local_pipeline = NoPipeline
    /\ MODEL_PROVIDER \in Providers
    /\ OPENAI_API_KEY \in ApiKeys
    /\ op = "__init__"
    /\ file = NoFile
    /\ question = <<>>
    /\ result = Return(None)
    /\ events = <<>>
    /\ ready = FALSE
    /\ ever_ready = FALSE
    /\ before = [transcript |-> None, chat_history |-> <<>>, ready |-> FALSE]
    /\ pc = [s \in Sessions |-> "idle"]
    /\ calls = [s \in Sessions |-> 0]
    /\ constructed = 0
    /\ audio_file_path = None
    /\ on_disk = FALSE
    /\ ui_out = "none"

ProcessAudioFile ==
    \E f \in Files, env \in TranscriptionEnvs :
        \E r \in {process_audio_file(transcript, chat_history, f, MODEL_PROVIDER,
                                    OPENAI_API_KEY, local_pipeline, env)} :
            /\ transcript' = r.transcript
            /\ chat_history' = r.chat_history
            /\ local_pipeline' = r.pipeline
            /\ op' = "process_audio_file"
            /\ file' = f
            /\ question' = <<>>
            /\ result' = r.out
            /\ events' = r.events
            /\ before' = Snapshot
            /\ ready' = (r.out.kind = "return")
            /\ ever_ready' = (ever_ready \/ r.out.kind = "return")
            /\ UNCHANGED << MODEL_PROVIDER, OPENAI_API_KEY, pc, calls, constructed,
                            audio_file_path, on_disk, ui_out >>

GetTranscript ==
    \E r \in {get_transcript(transcript)} :
        /\ op' = "get_transcript"
        /\ file' = NoFile
        /\ question' = <<>>
        /\ result' = r.out
        /\ events' = r.events
        /\ before' = Snapshot
        /\ UNCHANGED << transcript, chat_history, local_pipeline, MODEL_PROVIDER,
                        OPENAI_API_KEY, ready, ever_ready, pc, calls, constructed,
                            audio_file_path, on_disk, ui_out >>

GetSummary ==
    \E env \in AnalysisEnvs :
        \E r \in {get_summary(transcript, MODEL_PROVIDER, OPENAI_API_KEY, env)} :
            /\ op' = "get_summary"
            /\ file' = NoFile
            /\ question' = <<>>
            /\ result' = r.out
            /\ events' = r.events
            /\ before' = Snapshot
            /\ UNCHANGED << transcript, chat_history, local_pipeline, MODEL_PROVIDER,
                            OPENAI_API_KEY, ready, ever_ready, pc, calls, constructed,
                            audio_file_path, on_disk, ui_out >>

GetSentiment ==
    \E env \in AnalysisEnvs :
        \E r \in {get_sentiment(transcript, MODEL_PROVIDER, OPENAI_API_KEY, env)} :
            /\ op' = "get_sentiment"
            /\ file' = NoFile
            /\ question' = <<>>
            /\ result' = r.out
            /\ events' = r.events
            /\ before' = Snapshot
            /\ UNCHANGED << transcript, chat_history, local_pipeline, MODEL_PROVIDER,
                            OPENAI_API_KEY, ready, ever_ready, pc, calls, constructed,
                            audio_file_path, on_disk, ui_out >>

AnswerQuestion ==
    \E q \in Questions, env \in AnalysisEnvs :
        \E r \in {answer_question(transcript, chat_history, q, MODEL_PROVIDER,
                                 OPENAI_API_KEY, env)} :
            /\ Len(r.chat_history) <= MaxHistory
            /\ chat_history' = r.chat_history
            /\ op' = "answer_question"
            /\ file' = NoFile
            /\ question' = q
            /\ result' = r.out
            /\ events' = r.events
            /\ before' = Snapshot
            /\ UNCHANGED << transcript, local_pipeline, MODEL_PROVIDER,
                            OPENAI_API_KEY, ready, ever_ready, pc, calls, constructed,
                            audio_file_path, on_disk, ui_out >>

Next ==
    \/ ProcessAudioFile
    \/ GetTranscript
    \/ GetSummary
    \/ GetSentiment
    \/ AnswerQuestion

Spec == Init /\ [][Next]_vars

\* ------------------------------------------------- the validator on its own

\* Validator.validate_audio_file called directly, as the validator's tests do.
ValidateAudioFile ==
    \E f \in ValidatorFiles :
        \E r \in {validate_audio_file(f)} :
            /\ op' = "validate_audio_file"
            /\ file' = f
            /\ result' = r.out
            /\ events' = r.events
            /\ UNCHANGED << transcript, chat_history, local_pipeline, MODEL_PROVIDER,
                            OPENAI_API_KEY, question, ready, ever_ready, before,
                            pc, calls, constructed, audio_file_path, on_disk, ui_out >>

ValidatorSpec == Init /\ [][ValidateAudioFile]_vars

\* ------------------------------------- sessions transcribing concurrently

\* _get_local_pipeline run by several sessions at once, one step per read or
\* write of the class-level cache. Nothing in the method takes a lock, so the
\* steps of different sessions interleave freely.

\* A session's _transcribe_local calls _get_local_pipeline.
Enter(s) ==
    /\ pc[s] = "idle"
    /\ calls[s] < MaxCalls
    /\ pc' = [pc EXCEPT ![s] = "test"]
    /\ calls' = [calls EXCEPT ![s] = @ + 1]
    /\ UNCHANGED << local_pipeline, constructed, transcript, chat_history, MODEL_PROVIDER,
                    OPENAI_API_KEY, op, file, question, result, events, ready,
                    ever_ready, before, audio_file_path, on_disk, ui_out >>

\* A test that finds the cache empty whatever it holds.
TestCacheAlwaysEmpty(s) ==
    /\ pc[s] = "test"
    /\ pc' = [pc EXCEPT ![s] = "build"]
    /\ UNCHANGED << local_pipeline, calls, constructed, transcript, chat_history, MODEL_PROVIDER,
                    OPENAI_API_KEY, op, file, question, result, events, ready,
                    ever_ready, before, audio_file_path, on_disk, ui_out >>

\* if cls._local_pipeline is None
TestCache(s) ==
    /\ pc[s] = "test"
    /\ pc' = [pc EXCEPT ![s] = IF local_pipeline = NoPipeline THEN "build" ELSE "return"]
    /\ UNCHANGED << local_pipeline, calls, constructed, transcript, chat_history, MODEL_PROVIDER,
                    OPENAI_API_KEY, op, file, question, result, events, ready,
                    ever_ready, before, audio_file_path, on_disk, ui_out >>

\* pipeline(...) builds the model, or raises and the except clause turns that
\* into a TranscriptionError that ends the call.
Build(s) ==
    /\ pc[s] = "build"
    /\ \/ /\ constructed' = constructed + 1
          /\ pc' = [pc EXCEPT ![s] = "store"]
       \/ /\ constructed' = constructed
          /\ pc' = [pc EXCEPT ![s] = "idle"]
    /\ UNCHANGED << local_pipeline, calls, transcript, chat_history, MODEL_PROVIDER,
                    OPENAI_API_KEY, op, file, question, result, events, ready,
                    ever_ready, before, audio_file_path, on_disk, ui_out >>

\* cls._local_pipeline = <the pipeline just built>
StoreCache(s) ==
    /\ pc[s] = "store"
    /\ local_pipeline' = ThePipeline
    /\ pc' = [pc EXCEPT ![s] = "return"]
    /\ UNCHANGED << calls, constructed, transcript, chat_history, MODEL_PROVIDER,
                    OPENAI_API_KEY, op, file, question, result, events, ready,
                    ever_ready, before, audio_file_path, on_disk, ui_out >>

\* return cls._local_pipeline
ReturnPipeline(s) ==
    /\ pc[s] = "return"
    /\ pc' = [pc EXCEPT ![s] = "idle"]
    /\ UNCHANGED << local_pipeline, calls, constructed, transcript, chat_history, MODEL_PROVIDER,
                    OPENAI_API_KEY, op, file, question, result, events, ready,
                    ever_ready, before, audio_file_path, on_disk, ui_out >>

ConcNext ==
    \/ \E s \in Sessions : Enter(s)
    \/ \E s \in Sessions : TestCache(s)
    \/ \E s \in Sessions : Build(s)
    \/ \E s \in Sessions : StoreCache(s)
    \/ \E s \in Sessions : ReturnPipeline(s)

\* Every session is configured for the local provider.
ConcInit == Init /\ lower(MODEL_PROVIDER) = ProviderLocal

ConcSpec == ConcInit /\ [][ConcNext]_vars

\* ------------------------------------------------- the services on their own

\* The public methods of TranscriptionService and AnalysisService called
\* directly, whatever the controller would have let through.

ServiceTexts == { Str(<<>>), Str(<<"h", "i">>), Str(<<"a", " ", "b">>) }

ServiceHistories == { <<>>, << <<(<<"q">>), <<"o", "k">> >> >> }

Transcribe ==
    \E env \in TranscriptionEnvs :
        \E r \in {transcribe(MODEL_PROVIDER, OPENAI_API_KEY, local_pipeline, env)} :
            /\ op' = "transcribe"
            /\ result' = r.out
            /\ events' = r.events
            /\ local_pipeline' = r.pipeline
            /\ UNCHANGED << transcript, chat_history, MODEL_PROVIDER, OPENAI_API_KEY,
                            file, question, ready, ever_ready, before, pc, calls,
                            constructed, audio_file_path, on_disk, ui_out >>

Summarize ==
    \E text \in ServiceTexts, env \in AnalysisEnvs :
        \E r \in {summarize(text, MODEL_PROVIDER, OPENAI_API_KEY, env)} :
            /\ op' = "summarize"
            /\ result' = r.out
            /\ events' = r.events
            /\ UNCHANGED << transcript, chat_history, local_pipeline, MODEL_PROVIDER,
                            OPENAI_API_KEY, file, question, ready, ever_ready, before,
                            pc, calls, constructed, audio_file_path, on_disk, ui_out >>

AnalysisGetSentiment ==
    \E text \in ServiceTexts, env \in AnalysisEnvs :
        \E r \in {analysis_get_sentiment(text, MODEL_PROVIDER, OPENAI_API_KEY, env)} :
            /\ op' = "get_sentiment"
            /\ result' = r.out
            /\ events' = r.events
            /\ UNCHANGED << transcript, chat_history, local_pipeline, MODEL_PROVIDER,
                            OPENAI_API_KEY, file, question, ready, ever_ready, before,
                            pc, calls, constructed, audio_file_path, on_disk, ui_out >>

AnalysisAnswerQuestion ==
    \E text \in ServiceTexts, q \in Questions, h \in ServiceHistories,
       env \in AnalysisEnvs :
        \E r \in {analysis_answer_question(text, q, h, MODEL_PROVIDER,
                                          OPENAI_API_KEY, env)} :
            /\ op' = "answer_question"
            /\ question' = q
            /\ result' = r.out
            /\ events' = r.events
            /\ UNCHANGED << transcript, chat_history, local_pipeline, MODEL_PROVIDER,
                            OPENAI_API_KEY, file, ready, ever_ready, before,
                            pc, calls, constructed, audio_file_path, on_disk, ui_out >>

ServiceNext ==
    \/ Transcribe
    \/ Summarize
    \/ AnalysisGetSentiment
    \/ AnalysisAnswerQuestion

ServiceSpec == Init /\ [][ServiceNext]_vars

\* --------------------------------------------------- the UI's upload handler

\* What Gradio hands the handler: nothing, an empty path, or the path of the
\* temporary copy of the upload.
UploadPaths == { None, Str(<<>>), Str(<<"/", "t", "m", "p", "/", "a">>) }

\* app.process_audio_file. rm is what os.remove does ("ok" or "OSError").
\* Gives the controller's state and outcome, the updates returned and whether
\* the file is still there when the handler is left.
ui_process_audio_file(path, t, h, f, provider, key, pipeline, env, rm) ==
    LET c == process_audio_file(t, h, f, provider, key, pipeline, env)
    IN  IF path.isNone
        THEN [transcript |-> t, chat_history |-> h, pipeline |-> pipeline,
              result |-> Return(None), events |-> <<>>, called |-> FALSE,
              ui_out |-> "fail_updates", on_disk |-> f.exists]
        ELSE [transcript |-> c.transcript, chat_history |-> c.chat_history,
              pipeline |-> c.pipeline, result |-> c.out,
              events |-> <<EvOut("controller.process_audio_file", c.out)>> \o c.events
                         \o (IF Truthy(path)
                             THEN <<Ev("os.path.exists")>>
                                  \o (IF f.exists THEN <<Ev("os.remove")>> ELSE <<>>)
                             ELSE <<>>),
              called |-> TRUE,
              ui_out |-> IF c.out.kind = "return" THEN "success_updates"
                         ELSE IF IsA(c.out.type, "AppError") THEN "error_return"
                         ELSE "raise",
              on_disk |-> IF Truthy(path) /\ f.exists THEN rm = "OSError" ELSE f.exists]

UIProcessAudioFile ==
    \E path \in UploadPaths, f \in Files, env \in TranscriptionEnvs,
       rm \in {"ok", "OSError"} :
        /\ ~Truthy(path) => f = [GoodFile EXCEPT !.exists = FALSE]
        /\ \E r \in {ui_process_audio_file(path, transcript, chat_history, f,
                                           MODEL_PROVIDER, OPENAI_API_KEY,
                                           local_pipeline, env, rm)} :
            /\ transcript' = r.transcript
            /\ chat_history' = r.chat_history
            /\ local_pipeline' = r.pipeline
            /\ op' = "ui_process_audio_file"
            /\ audio_file_path' = path
            /\ file' = f
            /\ question' = <<>>
            /\ result' = r.result
            /\ events' = r.events
            /\ before' = Snapshot
            /\ ready' = IF r.called THEN r.result.kind = "return" ELSE ready
            /\ ever_ready' = (ever_ready \/ (r.called /\ r.result.kind = "return"))
            /\ on_disk' = r.on_disk
            /\ ui_out' = r.ui_out
            /\ UNCHANGED << MODEL_PROVIDER, OPENAI_API_KEY, pc, calls, constructed >>

UISpec == Init /\ [][UIProcessAudioFile]_vars

\* ------------------------------------------------------------------ claims

AnalysisOps == {"get_transcript", "get_summary", "get_sentiment", "answer_question"}

\* What the analysis service and its backends are called by.
AnalysisCalls ==
    {"summarize", "get_sentiment", "answer_question", "_analyze", "requests.post",
     "OpenAI", "chat.completions.create"}

\* What the transcription service and its backends are called by.
TranscriptionCalls ==
    {"transcribe", "pipeline", "pipeline.__call__", "OpenAI", "audio.transcriptions.create"}

NotReadyError == Raise("AppError", NotReadyMsg)

EmptyQuestionError == Raise("AppError", EmptyQuestionMsg)

Blank(q) == q = <<>> \/ strip(q) = <<>>

\* The calls to fn among evs.
CallsTo(fn, evs) == {i \in DOMAIN evs : evs[i].fn = fn}

\* C1: while no process_audio_file has succeeded on the session, get_transcript,
\* get_summary, get_sentiment and answer_question (whatever the question, blank
\* ones included) fail with the not-ready error and make no call to the
\* analysis service or its backends.
NotReadyBeforeProcessing ==
    (~ever_ready /\ op \in AnalysisOps)
        => /\ result = NotReadyError
           /\ \A i \in DOMAIN events : events[i].fn \notin AnalysisCalls

\* A blank question put to a session whose only upload has failed.
NotReadyBeforeProcessingWitness ==
    /\ ~ever_ready
    /\ op = "answer_question"
    /\ question # <<>> /\ Blank(question)
    /\ result = NotReadyError
    /\ local_pipeline = ThePipeline

\* C2: when the validator accepts the file and the transcription service
\* returns text T, process_audio_file returns without error with transcript
\* equal to T, and a get_transcript that follows returns T.
ProcessStoresTranscript ==
    [][ /\ \A i \in CallsTo("transcribe", events') :
              (op' = "process_audio_file" /\ events'[i].out.kind = "return")
                  => (result'.kind = "return" /\ transcript' = events'[i].out.value)
        /\ \A i \in CallsTo("transcribe", events) :
              (op = "process_audio_file" /\ events[i].out.kind = "return"
                 /\ op' = "get_transcript")
                  => result' = events[i].out ]_vars

\* C3: when the validator fails during process_audio_file the transcription
\* service is not called; and when the validator or the transcription service
\* fails with an AppError the transcript is None afterwards and that same error
\* (class and message) is what the caller gets.
ProcessFailurePropagates ==
    op = "process_audio_file"
        => /\ (\E i \in CallsTo("validate_audio_file", events) : events[i].out.kind = "raise")
                => \A j \in DOMAIN events : events[j].fn \notin TranscriptionCalls
           /\ \A i \in CallsTo("validate_audio_file", events) \cup CallsTo("transcribe", events) :
                Raised(events[i].out, "AppError")
                    => (transcript = None /\ result = events[i].out)

\* A rejected upload on a session that held a transcript and turns.
ProcessFailurePropagatesWitness ==
    /\ op = "process_audio_file"
    /\ before.ready /\ before.chat_history # <<>>
    /\ \E i \in CallsTo("validate_audio_file", events) :
          Raised(events[i].out, "InvalidFileType")
    /\ Raised(result, "InvalidFileType")

\* C4: when answer_question runs on a ready session and the backend's response
\* contains the phrase the prompt tells the model to use for an unanswerable
\* question, the call fails with IrrelevantQuestionError.
SentinelRaisesIrrelevant ==
    (op = "answer_question" /\ before.ready
       /\ \E i \in CallsTo("_analyze", events) :
             /\ events[i].out.kind = "return"
             /\ Contains(PromptSentinel, events[i].out.value.val))
        => Raised(result, "IrrelevantQuestionError")

\* C5: an answer_question that fails on a ready session leaves chat_history and
\* transcript as they were.
FailedTurnNotRecorded ==
    (op = "answer_question" /\ before.ready /\ result.kind = "raise")
        => (chat_history = before.chat_history /\ transcript = before.transcript)

\* An unanswerable question after at least one recorded turn.
FailedTurnNotRecordedWitness ==
    /\ op = "answer_question"
    /\ before.ready
    /\ Raised(result, "IrrelevantQuestionError")
    /\ chat_history # <<>>

\* C6: after a process_audio_file that returned without error, whatever text
\* the transcription gave (the empty text included), a get_transcript that
\* follows does not fail with the not-ready error.
ProcessedMeansReady ==
    [][ (op = "process_audio_file" /\ result.kind = "return" /\ op' = "get_transcript")
            => result' # NotReadyError ]_vars

\* C7: after a process_audio_file that succeeds on a ready session,
\* chat_history is empty and transcript is what the transcription service
\* returned for the new file.
ReprocessResets ==
    (op = "process_audio_file" /\ before.ready /\ result.kind = "return")
        => /\ chat_history = <<>>
           /\ \E i \in CallsTo("transcribe", events) : events[i].out = Return(transcript)

\* A second file processed after two turns about the first, with another text.
ReprocessResetsWitness ==
    /\ op = "process_audio_file"
    /\ before.ready
    /\ Len(before.chat_history) > 1
    /\ result.kind = "return"
    /\ transcript # before.transcript

\* C8: an answer_question(q) that succeeds on a ready session returns the
\* analysis service's answer a and leaves chat_history as it was with <<q, a>>
\* added at the end; and no call other than process_audio_file removes or
\* changes a turn.
TurnAppended ==
    /\ (op = "answer_question" /\ before.ready /\ result.kind = "return")
          => /\ \E i \in CallsTo("answer_question", events) : events[i].out = result
             /\ chat_history = Append(before.chat_history, <<question, result.value.val>>)
    /\ op \in AnalysisOps
          => /\ Len(before.chat_history) <= Len(chat_history)
             /\ SubSeq(chat_history, 1, Len(before.chat_history)) = before.chat_history

\* A second turn, different from the first, added behind it.
TurnAppendedWitness ==
    /\ op = "answer_question"
    /\ before.ready
    /\ result.kind = "return"
    /\ before.chat_history # <<>>
    /\ chat_history[Len(chat_history)] # chat_history[1]

\* C9: answer_question with a blank question on a ready session fails with the
\* empty-question error, makes no call to the analysis service and leaves
\* chat_history as it was.
BlankQuestionRejected ==
    (op = "answer_question" /\ before.ready /\ Blank(question))
        => /\ result = EmptyQuestionError
           /\ \A i \in DOMAIN events : events[i].fn \notin AnalysisCalls
           /\ chat_history = before.chat_history

\* C10: in every reachable state chat_history is non-empty only if transcript
\* is set.
HistoryNeedsTranscript == chat_history # <<>> => ~transcript.isNone

\* Turns on record after a call that failed.
HistoryNeedsTranscriptWitness ==
    /\ Len(chat_history) > 1
    /\ result.kind = "raise"
    /\ op \in {"get_summary", "get_sentiment"}

\* C11: on a ready session get_transcript returns a string, a second
\* get_transcript right after it returns that same string, and neither call
\* changes transcript or chat_history.
GetTranscriptIdempotent ==
    (op = "get_transcript" /\ ready)
        => /\ result.kind = "return" /\ ~result.value.isNone
           /\ get_transcript(transcript).out = result
           /\ transcript = before.transcript
           /\ chat_history = before.chat_history

\* What the validator's checks look at, read off the file it was handed.
AllowedType(f) == lower(f.ext) \in ALLOWED_FILE_EXTENSIONS

OverSize(f) == f.size > MAX_FILE_SIZE_MB * BytesPerMB

OverLength(f) == f.duration > MAX_FILE_LENGTH_MINS * MsPerMinute

\* The file got as far as being decoded.
Decoded(evs) == CallsTo("AudioSegment.from_file", evs) # {}

\* C12: validate_audio_file checks existence, extension, size and duration in
\* that order and stops at the first failure: an existing file with an
\* extension outside the allow-list fails with InvalidFileType whatever its
\* size and duration, without its size being read; and the audio is decoded
\* only when the file exists, has an allowed extension and is within the size
\* limit.
ValidateChecksInOrder ==
    op = "validate_audio_file"
        => /\ (file.exists /\ ~AllowedType(file))
                => /\ result.kind = "raise" /\ result.type = "InvalidFileType"
                   /\ CallsTo("os.path.getsize", events) = {}
           /\ Decoded(events)
                => (file.exists /\ AllowedType(file) /\ ~OverSize(file))
           /\ \A i \in CallsTo("os.path.getsize", events) :
                /\ CallsTo("os.path.exists", events) # {}
                /\ \A j \in CallsTo("os.path.exists", events) : j < i
                /\ \A j \in CallsTo("AudioSegment.from_file", events) : i < j

\* A text file that is also over the size and the duration limit.
ValidateChecksInOrderWitness ==
    /\ op = "validate_audio_file"
    /\ file.exists /\ ~AllowedType(file) /\ OverSize(file) /\ OverLength(file)
    /\ result.kind = "raise" /\ result.type = "InvalidFileType"

\* C13: for a path at which no file exists validate_audio_file fails with the
\* ValidationError 'File not found', whether the extension is allowed or not.
MissingFileNotFound ==
    (op = "validate_audio_file" /\ ~file.exists)
        => result = Raise("ValidationError", "File not found at path: {file_path}")

\* A missing path with an extension outside the allow-list.
MissingFileNotFoundWitness ==
    /\ op = "validate_audio_file"
    /\ ~file.exists /\ ~AllowedType(file)
    /\ result.kind = "raise" /\ result.type = "ValidationError"

\* C14: for an existing file with an allowed extension, validate_audio_file
\* fails with FileSizeExceeded exactly when the size in bytes is strictly
\* greater than MAX_FILE_SIZE_MB * 1024 * 1024; a file exactly at the limit
\* passes the size check.
SizeLimitStrict ==
    (op = "validate_audio_file" /\ file.exists /\ AllowedType(file))
        => /\ (result.kind = "raise" /\ result.type = "FileSizeExceeded")
                <=> file.size > MAX_FILE_SIZE_MB * BytesPerMB
           /\ file.size = MAX_FILE_SIZE_MB * BytesPerMB => Decoded(events)

\* A file of exactly the limit that goes on to be decoded and accepted.
SizeLimitStrictWitness ==
    /\ op = "validate_audio_file"
    /\ file.exists /\ AllowedType(file)
    /\ file.size = MAX_FILE_SIZE_MB * BytesPerMB
    /\ Decoded(events)
    /\ result = Return(None)

UndecodableIsValidationError ==
    (op = "validate_audio_file" /\ file.exists /\ AllowedType(file)
       /\ ~OverSize(file) /\ file.decode # "ok")
        => /\ Raised(result, "ValidationError")
           /\ result.type = "ValidationError"

ControllerOps == AnalysisOps \cup {"process_audio_file"}

\* C17: each of the five controller methods returns or raises an AppError;
\* nothing of another class raised by the validator, a provider or the
\* dispatcher gets past them.
OnlyAppErrorsEscape ==
    op \in ControllerOps => (result.kind = "return" \/ Raised(result, "AppError"))

\* The generic error the controller raises in place of any other.
InternalError == Raise("AppError", InternalErrorMsg)

\* How the validator and the transcription service ended, for those called.
CollaboratorOutcomes ==
    {events[i].out : i \in CallsTo("validate_audio_file", events)
                          \cup CallsTo("transcribe", events)}

\* C18: when the validator or the transcription service raises something
\* that is not an AppError during process_audio_file, the caller gets the
\* generic AppError 'An unexpected error occurred. Please check the logs.'
\* and the transcript is None afterwards.
UnexpectedErrorWrapped ==
    op = "process_audio_file"
        => \A out \in CollaboratorOutcomes :
              (out.kind = "raise" /\ ~IsA(out.type, "AppError"))
                  => (result = InternalError /\ transcript = None)

\* A ready session with a turn whose next upload is accepted by the validator
\* and then meets an error of another family in the transcription service.
UnexpectedErrorWrappedWitness ==
    /\ op = "process_audio_file"
    /\ before.ready /\ before.chat_history # <<>>
    /\ \E i \in CallsTo("transcribe", events) :
          events[i].out.kind = "raise" /\ ~IsA(events[i].out.type, "AppError")
    /\ result = InternalError

\* C19: after a process_audio_file that fails the transcript is None, and a
\* process_audio_file that follows and whose validation and transcription
\* succeed returns without error, with the transcript the transcription
\* service returned for that file.
FailureDoesNotStick ==
    [][ (op = "process_audio_file" /\ result.kind = "raise")
            => /\ transcript = None
               /\ op' = "process_audio_file"
                    => \A i \in CallsTo("transcribe", events') :
                          events'[i].out.kind = "return"
                              => /\ result'.kind = "return"
                                 /\ ready'
                                 /\ transcript' = events'[i].out.value ]_vars

\* An upload that succeeds on a session that is not ready although the local
\* model was built by an earlier upload: the upload before this one failed.
FailureDoesNotStickWitness ==
    /\ op = "process_audio_file"
    /\ ~before.ready /\ before.transcript = None
    /\ CallsTo("pipeline", events) = {}
    /\ CallsTo("pipeline.__call__", events) # {}
    /\ result.kind = "return"
    /\ Truthy(transcript)

\* C20: however the sessions' first local transcriptions interleave, the
\* local model is built at most once.
ModelBuiltAtMostOnce == constructed <= 1

InitFailedMsg ==
    "Could not initialize the local transcription model. Please check model name and dependencies."

KeyMissingMsg == "OpenAI API key is not configured."

\* The call just made tried to build the local model and the cache is still
\* empty: the initialization failed.
InitJustFailed ==
    /\ lower(MODEL_PROVIDER) = ProviderLocal
    /\ CallsTo("pipeline", events) # {}
    /\ local_pipeline = NoPipeline

\* C21: once building the local model has failed, the next local transcription
\* fails too and does not try to build the model again.
InitFailureIsFatal ==
    [][ (op = "transcribe" /\ InitJustFailed /\ op' = "transcribe")
            => /\ result'.kind = "raise"
               /\ CallsTo("pipeline", events') = {} ]_vars

\* C22: with the OpenAI provider selected and no API key, transcribe fails with
\* the TranscriptionError 'OpenAI API key is not configured.' and summarize,
\* get_sentiment and answer_question fail with the AnalysisError of the same
\* message, no client having been created and no request sent.
MissingKeyFailsFast ==
    (lower(MODEL_PROVIDER) = ProviderOpenAI /\ ~Truthy(OPENAI_API_KEY))
        => /\ op = "transcribe"
                => /\ result = Raise("TranscriptionError", KeyMissingMsg)
                   /\ events = <<>>
           /\ op \in {"summarize", "get_sentiment", "answer_question"}
                => /\ result = Raise("AnalysisError", KeyMissingMsg)
                   /\ \A i \in DOMAIN events :
                        events[i].fn \notin {"OpenAI", "chat.completions.create",
                                             "requests.post"}

\* A question put to the analysis service under the provider written 'OpenAI'
\* with no key.
MissingKeyFailsFastWitness ==
    /\ op = "answer_question"
    /\ MODEL_PROVIDER # ProviderOpenAI /\ lower(MODEL_PROVIDER) = ProviderOpenAI
    /\ OPENAI_API_KEY = None
    /\ result = Raise("AnalysisError", KeyMissingMsg)
    /\ CallsTo("_analyze", events) # {}

LocalBackends == {"pipeline", "pipeline.__call__", "requests.post"}

RemoteBackends == {"OpenAI", "audio.transcriptions.create", "chat.completions.create"}

ServiceOps == {"transcribe", "summarize", "get_sentiment", "answer_question"}

\* The backends called, in order.
BackendCalls(evs) == SelectSeq(evs, LAMBDA e : e.fn \in LocalBackends \cup RemoteBackends)

\* C24: transcribe and the analysis dispatcher call the local strategy only
\* when the flag reads 'local' and the OpenAI strategy only when it reads
\* 'openai', in any letter case; for any other flag neither strategy is
\* called and the error raised is neither a TranscriptionError nor an
\* AnalysisError.
DispatchByFlag ==
    op \in ServiceOps
        => /\ lower(MODEL_PROVIDER) = ProviderLocal
                => /\ BackendCalls(events) # <<>>
                   /\ \A i \in DOMAIN events : events[i].fn \notin RemoteBackends
           /\ lower(MODEL_PROVIDER) = ProviderOpenAI
                => /\ \A i \in DOMAIN events : events[i].fn \notin LocalBackends
                   /\ IF Truthy(OPENAI_API_KEY)
                      THEN BackendCalls(events) # <<>>
                      ELSE result.kind = "raise" /\ result.msg = KeyMissingMsg
           /\ lower(MODEL_PROVIDER) \notin {ProviderLocal, ProviderOpenAI}
                => /\ BackendCalls(events) = <<>>
                   /\ result.kind = "raise"
                   /\ ~IsA(result.type, "TranscriptionError")
                   /\ ~IsA(result.type, "AnalysisError")

\* The provider written 'OpenAI' reaching the OpenAI chat endpoint.
DispatchByFlagWitness ==
    /\ op = "summarize"
    /\ MODEL_PROVIDER = <<"O", "p", "e", "n", "A", "I">>
    /\ CallsTo("chat.completions.create", events) # {}
    /\ result.kind = "return"

\* The requests sent to an analysis backend.
AnalysisRequests(evs) == CallsTo("requests.post", evs) \cup CallsTo("chat.completions.create", evs)

\* The calls into the analysis service's public methods.
AnalysisServiceCalls(evs) ==
    CallsTo("summarize", evs) \cup CallsTo("get_sentiment", evs)
        \cup CallsTo("answer_question", evs)

\* C25: get_transcript, get_summary and get_sentiment leave transcript and
\* chat_history as they found them whether they succeed or fail, and every
\* get_summary or get_sentiment on a ready session sends exactly one request
\* to the analysis provider, made from the current transcript.
ReadsRecomputeAndLeaveState ==
    op \in {"get_transcript", "get_summary", "get_sentiment"}
        => /\ transcript = before.transcript
           /\ chat_history = before.chat_history
           /\ (ready /\ op # "get_transcript")
                => /\ Cardinality(AnalysisRequests(events)) = 1
                   /\ Cardinality(AnalysisServiceCalls(events)) = 1
                   /\ \A i \in AnalysisServiceCalls(events) : events[i].text = transcript

\* C26: a process_audio_file that fails on a ready session leaves the
\* transcript None and chat_history empty, whichever of the validator and the
\* transcription service failed: nothing of the previous file is left.
FailedUploadLeavesEmpty ==
    (op = "process_audio_file" /\ before.ready /\ result.kind = "raise")
        => /\ transcript = None
           /\ chat_history = <<>>
           /\ ~ready

\* A ready session with a transcript and two turns whose next upload is
\* rejected by the validator.
FailedUploadLeavesEmptyWitness ==
    /\ op = "process_audio_file"
    /\ before.ready /\ Truthy(before.transcript) /\ Len(before.chat_history) = 2
    /\ \E i \in CallsTo("validate_audio_file", events) : events[i].out.kind = "raise"
    /\ result.kind = "raise"

\* C27: when building the local model fails, transcribe raises the
\* TranscriptionError 'Could not initialize the local transcription model...',
\* not the one raised when inference fails on a model already built.
InitFailureSurfaced ==
    (op = "transcribe" /\ InitJustFailed)
        => result = Raise("TranscriptionError", InitFailedMsg)

\* C28: whenever the UI's upload handler is handed a path, the file at that
\* path no longer exists when the handler returns, whether the controller
\* succeeded or the validator or the transcription failed.
TempFileRemoved ==
    (op = "ui_process_audio_file" /\ ~audio_file_path.isNone) => ~on_disk

\* C29: the transcript handed to the analysis service by get_summary,
\* get_sentiment and answer_question is the non-empty text the last
\* process_audio_file stored from the transcription service, not changed since;
\* and the history handed over by answer_question is the turns recorded since
\* then, in order: none after process_audio_file, one more after each
\* answer_question that returned, no other change.
AnalysisGetsCurrentState ==
    [][ /\ op' \in AnalysisOps
            => /\ transcript' = transcript
               /\ chat_history' = IF op' = "answer_question" /\ result'.kind = "return"
                                  THEN Append(chat_history, <<question', result'.value.val>>)
                                  ELSE chat_history
               /\ \A i \in AnalysisServiceCalls(events') :
                    /\ events'[i].text = transcript
                    /\ Truthy(transcript)
                    /\ ready
                    /\ events'[i].fn = "answer_question"
                         => events'[i].history = chat_history
        /\ op' = "process_audio_file"
            => /\ chat_history' = <<>>
               /\ IF result'.kind = "return"
                  THEN \E i \in CallsTo("transcribe", events') :
                          events'[i].out = Return(transcript')
                  ELSE transcript' = None ]_vars

\* A second question put after a first one was answered: the service is
\* handed the stored transcript and the one turn recorded.
AnalysisGetsCurrentStateWitness ==
    /\ op = "answer_question"
    /\ Len(before.chat_history) = 1
    /\ Len(chat_history) = 2
    /\ \E i \in CallsTo("answer_question", events) :
          /\ events[i].history = before.chat_history
          /\ events[i].text = transcript

====
